---- MODULE Spec2Model ----
(***************************************************************************)
(* Model of the invoice parser (src/app3.py): the Streamlit batch loop of   *)
(* main, the per-file pipeline of process_pdf / extract_content_from_pdf,   *)
(* and the two pure reshaping functions extract_text and extract_tables     *)
(* together with the table-grid serialization inside process_pdf.           *)
(*                                                                         *)
(* Python values are represented as follows.                                *)
(*   list            sequence                                              *)
(*   dict            function; the empty dict is << >>                     *)
(*   str             string; f-strings and str.join are \o concatenations  *)
(*   None / []       the empty sequence where the code only tests          *)
(*                   truthiness (result.paragraphs, bounding_regions, ...) *)
(*   raise           a record [raised |-> TRUE, msg |-> str(e)]            *)
(***************************************************************************)
EXTENDS Integers, Sequences, FiniteSets, TLC

VARIABLES
    mainpc,            \* position of main (lines 279-349)
    creds,             \* VISION_ENDPOINT and VISION_KEY are both non-empty
    uploaded_files,    \* number of uploaded files; file i is the i-th upload
    idx,               \* 1-based position of the batch loop (line 303)
    temp_files,        \* temporary files that exist on disk, by upload index
    attempted,         \* uploads whose loop iteration has started, in order
    outcomes,          \* per upload: what the iteration put on the page
    notice,            \* st.success("All files processed!") was shown
    ppc,               \* position of process_pdf (lines 173-277)
    result,            \* the AnalysisResult returned by poller.result()
    text_content,      \* dict page number -> list of fragments
    tables,            \* list of table_data dicts
    text_content_str,  \* text section of the prompt
    grids,             \* the local `grid` built for each table, in table order
    tables_str,        \* tables section of the prompt
    ret,               \* value returned by process_pdf
    failed_step,       \* step of process_pdf that raised, or "none"
    events             \* external calls made by the current process_pdf call

vars == << mainpc, creds, uploaded_files, idx, temp_files, attempted, outcomes,
           notice, ppc, result, text_content, tables, text_content_str, grids,
           tables_str, ret, failed_step, events >>

mainVars == << mainpc, creds, uploaded_files, idx, temp_files, attempted,
               outcomes, notice >>

-----------------------------------------------------------------------------
(* Bounds of the analysis results fed to the extractors.                    *)

MaxParas == 2
MaxRegions == 1
MaxPage == 2
MaxLines == 1

Offsets == {10, 30, 50}

RegionPages == {1, 2}

EmptyDict == << >>

(* All sequences over S of length at most n.                                *)
SeqUpTo(S, n) == UNION { [1..k -> S] : k \in 0..n }

-----------------------------------------------------------------------------
(* AnalysisResult inputs for the text extractor.                            *)

Region(p) == [page_number |-> p]

Span(o) == [offset |-> o]

SpanChoices == { << >> } \cup { << Span(o) >> : o \in Offsets }

RegionChoices == SeqUpTo({ Region(p) : p \in RegionPages }, MaxRegions)

(* Paragraph number i of a result: its content names its original position. *)
Paragraph(i, spans, regions) ==
    [ content          |-> "P" \o ToString(i),
      role             |-> IF i = 1 THEN "title" ELSE "None",
      spans            |-> spans,
      bounding_regions |-> regions ]

(* The list of k paragraphs with the spans sp and the regions rg.           *)
Paragraphs(k, sp, rg) == [i \in 1..k |-> Paragraph(i, sp[i], rg[i])]

Line(p, k) == [content |-> "L" \o ToString(p) \o "." \o ToString(k)]

Page(p, n) == [page_number |-> p, lines |-> [k \in 1..n |-> Line(p, k)]]

(* Pages carry distinct page numbers, in any order.                         *)
PageOrders ==
    { s \in SeqUpTo(1..MaxPage, MaxPage) :
        \A i, j \in 1..Len(s) : i # j => s[i] # s[j] }

PageLists ==
    UNION { { [i \in 1..Len(s) |-> Page(s[i], n[i])] :
                n \in [1..Len(s) -> 0..MaxLines] } : s \in PageOrders }

(* Pages offered next to a non-empty paragraph list.                        *)
PagesBesideParagraphs ==
    { << >>, << Page(1, 1) >>, << Page(2, 0), Page(1, 1) >> }

AnalysisResult(paragraphs, pages, tbls) ==
    [paragraphs |-> paragraphs, pages |-> pages, tables |-> tbls]

(* Spec section 8: paragraphs with span offsets [50, 10, 30].               *)
OffsetsExample ==
    AnalysisResult(
        << Paragraph(1, << Span(50) >>, << Region(1) >>),
           Paragraph(2, << Span(10) >>, << Region(1) >>),
           Paragraph(3, << Span(30) >>, << Region(1) >>) >>,
        << Page(1, 1) >>, << >>)

(* Spec section 8: one paragraph with regions on pages 2 and 3.             *)
TwoPageExample ==
    AnalysisResult(
        << Paragraph(1, << Span(10) >>, << Region(2), Region(3) >>) >>,
        << >>, << >>)


-----------------------------------------------------------------------------
(* extract_text (lines 72-122).                                             *)

(* key=lambda p: (p.spans[0].offset if p.spans else 0), line 91.            *)
SortKey(p) == IF p.spans # << >> THEN p.spans[1].offset ELSE 0

RECURSIVE InsertByKey(_, _)
(* Stable insertion: p goes behind every element whose key is <= its own.   *)
InsertByKey(s, p) ==
    IF s = << >> THEN << p >>
    ELSE IF SortKey(Head(s)) <= SortKey(p)
         THEN << Head(s) >> \o InsertByKey(Tail(s), p)
         ELSE << p >> \o s

RECURSIVE SortByKey(_)
SortByKey(ps) ==
    IF ps = << >> THEN << >>
    ELSE InsertByKey(SortByKey(SubSeq(ps, 1, Len(ps) - 1)), ps[Len(ps)])

UnsortedParagraphs(ps) == ps

(* sorted(result.paragraphs, key=...), lines 89-92: Python's stable sort.   *)
sorted_paragraphs(ps) == SortByKey(ps)

ParagraphFragment(p) ==
    [type |-> "paragraph", content |-> p.content, role |-> p.role]

LineFragment(l) == [type |-> "line", content |-> l.content]

(* Lines 98-105: create the page's list on first use, then append.          *)
AppendFragment(tc, page_num, frag) ==
    IF page_num \in DOMAIN tc
    THEN [tc EXCEPT ![page_num] = Append(@, frag)]
    ELSE [k \in DOMAIN tc \cup {page_num} |->
            IF k = page_num THEN << frag >> ELSE tc[k]]

RECURSIVE AppendToPages(_, _, _)
(* Lines 95-105 for one paragraph: one fragment per bounding region.        *)
AppendToPages(tc, regions, frag) ==
    IF regions = << >> THEN tc
    ELSE AppendToPages(AppendFragment(tc, Head(regions).page_number, frag),
                       Tail(regions), frag)

RECURSIVE ParagraphText(_, _)
(* Lines 94-105: the loop over the sorted paragraphs.                       *)
ParagraphText(tc, ps) ==
    IF ps = << >> THEN tc
    ELSE ParagraphText(
            AppendToPages(tc, Head(ps).bounding_regions,
                          ParagraphFragment(Head(ps))),
            Tail(ps))

PageEntrySkippingEmpty(tc, page) ==
    IF page.lines = << >> THEN tc
    ELSE [k \in DOMAIN tc \cup {page.page_number} |->
            IF k = page.page_number
            THEN [i \in 1..Len(page.lines) |-> LineFragment(page.lines[i])]
            ELSE tc[k]]

(* Lines 111-119 for one page: the entry is (re)set to [] and filled.       *)
PageEntry(tc, page) ==
    [k \in DOMAIN tc \cup {page.page_number} |->
        IF k = page.page_number
        THEN [i \in 1..Len(page.lines) |-> LineFragment(page.lines[i])]
        ELSE tc[k]]

RECURSIVE PageText(_, _)
(* Lines 110-119: the loop over result.pages.                               *)
PageText(tc, pages) ==
    IF pages = << >> THEN tc
    ELSE PageText(PageEntry(tc, Head(pages)), Tail(pages))

extract_text(res) ==
    LET fromParagraphs ==
            IF res.paragraphs # << >>
            THEN ParagraphText(EmptyDict, sorted_paragraphs(res.paragraphs))
            ELSE EmptyDict
    IN  IF DOMAIN fromParagraphs = {} /\ res.pages # << >>
        THEN PageText(fromParagraphs, res.pages)
        ELSE fromParagraphs

-----------------------------------------------------------------------------
(* The text extractor on its own: an analysis result is drawn, then         *)
(* extract_text is applied to it (line 59).                                 *)

IdleMain ==
    /\ mainpc = "direct_call"
    /\ uploaded_files = 0
    /\ idx = 0
    /\ temp_files = {}
    /\ attempted = << >>
    /\ outcomes = << >>
    /\ notice = FALSE

IdleCall ==
    /\ text_content = EmptyDict
    /\ tables = << >>
    /\ text_content_str = ""
    /\ grids = << >>
    /\ tables_str = ""
    /\ ret = ""
    /\ failed_step = "none"
    /\ events = << >>

InitText ==
    /\ IdleMain
    /\ creds = TRUE
    /\ IdleCall
    /\ ppc = "extract_text"
    /\ \/ \E k \in 0..MaxParas :
            \E sp \in [1..k -> SpanChoices], rg \in [1..k -> RegionChoices],
               pg \in IF k = 0 THEN PageLists ELSE PagesBesideParagraphs :
                result = AnalysisResult(Paragraphs(k, sp, rg), pg, << >>)
       \/ result \in { OffsetsExample, TwoPageExample }

ExtractText ==
    /\ ppc = "extract_text"
    /\ text_content' = extract_text(result)
    /\ ppc' = "text_extracted"
    /\ UNCHANGED << mainVars, result, tables, text_content_str, grids,
                    tables_str, ret, failed_step, events >>

NextText == ExtractText

SpecText == InitText /\ [][NextText]_vars

-----------------------------------------------------------------------------
(* Properties of the text extractor, checked under SpecText.                *)

TextExtracted == ppc = "text_extracted"

(* The pages named by the bounding regions of the result's paragraphs.      *)
ParagraphPages(res) ==
    UNION { { res.paragraphs[i].bounding_regions[j].page_number :
                j \in 1..Len(res.paragraphs[i].bounding_regions) } :
            i \in 1..Len(res.paragraphs) }

AllFragments(tc) ==
    UNION { { tc[k][i] : i \in 1..Len(tc[k]) } : k \in DOMAIN tc }

(* C3 (as claimed): whenever the analysis result has at least one           *)
(* paragraph, the output of extract_text is built from paragraphs only: it  *)
(* holds no fragment of type "line" and no page key that comes only from    *)
(* result.pages, also when no paragraph has a bounding region.              *)
C3_ParagraphsTakeTotalPrecedence ==
    (TextExtracted /\ result.paragraphs # << >>) =>
        /\ \A f \in AllFragments(text_content) : f.type # "line"
        /\ DOMAIN text_content \subseteq ParagraphPages(result)

(* The first span offset of paragraph i of the result; no spans count as 0. *)
FirstOffset(res, i) ==
    IF Len(res.paragraphs[i].spans) = 0 THEN 0
    ELSE res.paragraphs[i].spans[1].offset

(* The original position of the paragraph a fragment was made from.         *)
SourceParagraph(res, frag) ==
    CHOOSE i \in 1..Len(res.paragraphs) :
        res.paragraphs[i].content = frag.content

(* Paragraph i is emitted no later than paragraph j.                        *)
EmittedBefore(res, i, j) ==
    \/ FirstOffset(res, i) < FirstOffset(res, j)
    \/ FirstOffset(res, i) = FirstOffset(res, j) /\ i <= j

(* C9: for a result with at least one paragraph, on every page of the       *)
(* output the paragraph fragments stand in ascending order of their         *)
(* paragraph's first span offset (no spans = 0), equal offsets in original  *)
(* order; offsets [50, 10, 30] come out as [10, 30, 50].                    *)
C9_FragmentsInOffsetOrder ==
    (TextExtracted /\ result.paragraphs # << >>) =>
        /\ \A k \in DOMAIN text_content :
             \A a, b \in 1..Len(text_content[k]) :
                (/\ a < b
                 /\ text_content[k][a].type = "paragraph"
                 /\ text_content[k][b].type = "paragraph") =>
                    EmittedBefore(result,
                                  SourceParagraph(result, text_content[k][a]),
                                  SourceParagraph(result, text_content[k][b]))
        /\ result = OffsetsExample =>
             /\ DOMAIN text_content = {1}
             /\ [i \in 1..3 |-> text_content[1][i].content]
                    = << "P2", "P3", "P1" >>

(* Two paragraphs on one page whose offsets reverse their original order,   *)
(* emitted in offset order.                                                 *)
C9_Witness ==
    /\ TextExtracted
    /\ Len(result.paragraphs) >= 2
    /\ FirstOffset(result, 1) > FirstOffset(result, 2)
    /\ \E k \in DOMAIN text_content :
         /\ Len(text_content[k]) >= 2
         /\ text_content[k][1].type = "paragraph"
         /\ text_content[k][1].content = result.paragraphs[2].content
         /\ text_content[k][2].content = result.paragraphs[1].content

-----------------------------------------------------------------------------
(* Bounds of the tables fed to extract_tables and to the grid builder.      *)

MaxRows == 2
MaxCols == 2
MaxCells == 2
MaxTables == 2
MaxTableRegions == 3

TablePages == {1, 3}

CellNames == << "A", "B", "C", "D", "E", "F", "G", "H" >>

(* Cell number i of a table: its content names its position in table.cells. *)
Cell(i, r, c) ==
    [ row_index    |-> r,
      column_index |-> c,
      content      |-> CellNames[i],
      kind         |-> IF r = 0 THEN "columnHeader" ELSE "content",
      column_span  |-> 1 ]

Table(rows, cols, regions, cells) ==
    [ row_count        |-> rows,
      column_count     |-> cols,
      bounding_regions |-> regions,
      cells            |-> cells ]

(* A rows x cols table on one page whose k cells have the row indices r     *)
(* and the column indices c.                                                *)
GridTable(rows, cols, k, r, c) ==
    Table(rows, cols, << Region(1) >>, [i \in 1..k |-> Cell(i, r[i], c[i])])

(* A table that varies the bounding regions, with a single cell.            *)
RegionTable(regions) == Table(1, 1, regions, << Cell(1, 0, 0) >>)

TableRegionChoices ==
    SeqUpTo({ Region(p) : p \in TablePages }, MaxTableRegions)

(* Spec section 8: the 2x2 table A, B, C, D.                                *)
GridExample ==
    Table(2, 2, << Region(1) >>,
          << Cell(1, 0, 0), Cell(2, 0, 1), Cell(3, 1, 0), Cell(4, 1, 1) >>)

(* Spec section 8: only 3 of the 4 positions populated.                     *)
MissingCellExample ==
    Table(2, 2, << Region(1) >>,
          << Cell(1, 0, 0), Cell(2, 0, 1), Cell(3, 1, 1) >>)

TableExamples ==
    { AnalysisResult(<< >>, << >>, << t >>) :
        t \in { GridExample, MissingCellExample } }

-----------------------------------------------------------------------------
(* extract_tables (lines 124-171).                                          *)

RECURSIVE AllPageNumbers(_, _)
AllPageNumbers(page_numbers, regions) ==
    IF regions = << >> THEN page_numbers
    ELSE AllPageNumbers(Append(page_numbers, Head(regions).page_number),
                        Tail(regions))

RECURSIVE AddPageNumbers(_, _)
(* Lines 151-154: a region's page is appended unless already listed.        *)
AddPageNumbers(page_numbers, regions) ==
    IF regions = << >> THEN page_numbers
    ELSE AddPageNumbers(
            IF \E i \in 1..Len(page_numbers) :
                    page_numbers[i] = Head(regions).page_number
            THEN page_numbers
            ELSE Append(page_numbers, Head(regions).page_number),
            Tail(regions))

(* Lines 158-164.                                                           *)
CellData(cell) ==
    [ row_index    |-> cell.row_index,
      column_index |-> cell.column_index,
      content      |-> cell.content,
      is_header    |-> cell.kind = "columnHeader",
      spans        |-> cell.column_span ]

(* Lines 142-165 for the table at 0-based position table_idx.               *)
TableData(table_idx, table) ==
    [ table_id     |-> table_idx,
      row_count    |-> table.row_count,
      column_count |-> table.column_count,
      page_numbers |-> AddPageNumbers(<< >>, table.bounding_regions),
      cells        |-> [i \in 1..Len(table.cells) |-> CellData(table.cells[i])] ]

extract_tables(res) ==
    [i \in 1..Len(res.tables) |-> TableData(i - 1, res.tables[i])]

-----------------------------------------------------------------------------
(* The table section of the prompt, process_pdf lines 206-225.              *)

NoError == [raised |-> FALSE, msg |-> ""]

IndexError(msg) == [raised |-> TRUE, msg |-> msg]

(* Python list indexing of a list of length n by i, as a 1-based position;  *)
(* 0 stands for IndexError.  Negative indices count from the end.           *)
ListIndex(i, n) ==
    IF 0 <= i /\ i < n THEN i + 1
    ELSE IF -n <= i /\ i < 0 THEN n + i + 1
    ELSE 0

(* Line 217.                                                                *)
EmptyGrid(rows, cols) == [r \in 1..rows |-> [c \in 1..cols |-> ""]]

PlaceCellTransposed(g, cell) ==
    LET r == ListIndex(cell.column_index, Len(g.grid))
    IN  IF r = 0
        THEN [g EXCEPT !.err = IndexError("list index out of range")]
        ELSE LET c == ListIndex(cell.row_index, Len(g.grid[r]))
             IN  IF c = 0
                 THEN [g EXCEPT !.err =
                         IndexError("list assignment index out of range")]
                 ELSE [g EXCEPT !.grid[r][c] = cell.content]

(* Lines 220-222: grid[row][col] = cell["content"].                         *)
PlaceCell(g, cell) ==
    LET r == ListIndex(cell.row_index, Len(g.grid))
    IN  IF r = 0
        THEN [g EXCEPT !.err = IndexError("list index out of range")]
        ELSE LET c == ListIndex(cell.column_index, Len(g.grid[r]))
             IN  IF c = 0
                 THEN [g EXCEPT !.err =
                         IndexError("list assignment index out of range")]
                 ELSE [g EXCEPT !.grid[r][c] = cell.content]

RECURSIVE FillGrid(_, _)
(* Lines 219-222: the loop over the cells ends at the first IndexError.     *)
FillGrid(g, cells) ==
    IF g.err.raised \/ cells = << >> THEN g
    ELSE FillGrid(PlaceCell(g, Head(cells)), Tail(cells))

RECURSIVE JoinStrings(_, _)
(* str.join.                                                                *)
JoinStrings(sep, strs) ==
    IF strs = << >> THEN ""
    ELSE IF Len(strs) = 1 THEN strs[1]
    ELSE strs[1] \o sep \o JoinStrings(sep, Tail(strs))

RECURSIVE GridRows(_)
(* Lines 224-225: one line per row of the grid.                             *)
GridRows(grid) ==
    IF grid = << >> THEN ""
    ELSE JoinStrings(" | ", Head(grid)) \o "\n" \o GridRows(Tail(grid))

(* Lines 211-212 for the table at 0-based position i.                       *)
TableHeader(i, table) ==
    "\n### Table " \o ToString(i + 1) \o "\n"
    \o "Pages: "
    \o JoinStrings(", ", [k \in 1..Len(table.page_numbers) |->
                            ToString(table.page_numbers[k])])
    \o "\n\n"

RECURSIVE SerializeFrom(_, _, _)
(* Lines 210-225: the loop over the tables from 0-based position i on.      *)
SerializeFrom(acc, tbls, i) ==
    IF acc.err.raised \/ i >= Len(tbls) THEN acc
    ELSE LET table == tbls[i + 1]
             g == FillGrid([grid |-> EmptyGrid(table.row_count,
                                              table.column_count),
                            err  |-> NoError],
                           table.cells)
         IN  IF g.err.raised
             THEN [acc EXCEPT !.err = g.err]
             ELSE SerializeFrom(
                    [acc EXCEPT
                        !.str = @ \o TableHeader(i, table) \o GridRows(g.grid),
                        !.grids = Append(@, g.grid)],
                    tbls, i + 1)

(* Lines 207-225.                                                           *)
SerializeTables(tbls) ==
    IF tbls = << >>
    THEN [str |-> "", grids |-> << >>, err |-> NoError]
    ELSE SerializeFrom([str |-> "\n\n## Tables\n", grids |-> << >>,
                        err |-> NoError],
                       tbls, 0)

-----------------------------------------------------------------------------
(* The per-file boundary of process_pdf, lines 275-277.                     *)

ReRaise(msg) == [pc |-> "raised", value |-> msg]

(* except Exception as e: return f"Error processing PDF: {str(e)}".         *)
HandleException(msg) ==
    [pc |-> "returned", value |-> "Error processing PDF: " \o msg]

(* Lines 206-225 as a step of process_pdf.                                  *)
P_PrepareTables ==
    /\ ppc = "prepare_tables"
    /\ LET out == SerializeTables(tables)
       IN  IF out.err.raised
           THEN /\ ppc' = HandleException(out.err.msg).pc
                /\ ret' = HandleException(out.err.msg).value
                /\ failed_step' = "prepare_tables"
                /\ UNCHANGED << tables_str, grids >>
           ELSE /\ ppc' = "invoke"
                /\ tables_str' = out.str
                /\ grids' = out.grids
                /\ UNCHANGED << ret, failed_step >>
    /\ UNCHANGED << mainVars, result, text_content, tables, text_content_str,
                    events >>

-----------------------------------------------------------------------------
(* The table path on its own: an analysis result is drawn, extract_tables   *)
(* is applied to it (line 63) and the table section is assembled.           *)

InitTables ==
    /\ IdleMain
    /\ creds = TRUE
    /\ IdleCall
    /\ ppc = "extract_tables"
    /\ \/ \E rows \in 0..MaxRows, cols \in 0..MaxCols, k \in 0..MaxCells :
            \E r \in [1..k -> -1..rows], c \in [1..k -> -1..cols] :
                result = AnalysisResult(<< >>, << >>,
                                        << GridTable(rows, cols, k, r, c) >>)
       \/ \E n \in 0..MaxTables : \E rg \in [1..n -> TableRegionChoices] :
            result = AnalysisResult(<< >>, << >>,
                                    [i \in 1..n |-> RegionTable(rg[i])])
       \/ result \in TableExamples

ExtractTables ==
    /\ ppc = "extract_tables"
    /\ tables' = extract_tables(result)
    /\ ppc' = "prepare_tables"
    /\ UNCHANGED << mainVars, result, text_content, text_content_str, grids,
                    tables_str, ret, failed_step, events >>

NextTables == ExtractTables \/ P_PrepareTables

SpecTables == InitTables /\ [][NextTables]_vars

-----------------------------------------------------------------------------
(* Properties of the table path, checked under SpecTables.                  *)

(* The table section has been attempted: assembled, or aborted by an error. *)
TablesPrepared == ppc \in {"invoke", "returned", "raised"}

CellInRange(table, cell) ==
    /\ 0 <= cell.row_index /\ cell.row_index < table.row_count
    /\ 0 <= cell.column_index /\ cell.column_index < table.column_count

AllCellsInRange(table) ==
    \A i \in 1..Len(table.cells) : CellInRange(table, table.cells[i])

(* The cells of the table that sit at 0-based position (r, c).              *)
CellsAt(table, r, c) ==
    { i \in 1..Len(table.cells) :
        table.cells[i].row_index = r /\ table.cells[i].column_index = c }

(* What position (r, c) should show: the content of its cell (of the last   *)
(* one, should the table name the position twice), "" without a cell.       *)
ContentAt(table, r, c) ==
    IF CellsAt(table, r, c) = {} THEN ""
    ELSE table.cells[CHOOSE i \in CellsAt(table, r, c) :
                        \A j \in CellsAt(table, r, c) : j <= i].content

ExpectedGrid(table) ==
    [r \in 1..table.row_count |->
        [c \in 1..table.column_count |-> ContentAt(table, r - 1, c - 1)]]

(* C6 (as claimed): a table with a cell outside [0,row_count) x             *)
(* [0,column_count) does not make the table section fail: process_pdf goes  *)
(* on to the LLM invocation, the grid keeps row_count rows of column_count  *)
(* columns, and every in-range position shows its own in-range cell.        *)
C6_OutOfRangeCellsTolerated ==
    (/\ TablesPrepared
     /\ \E i \in 1..Len(result.tables) : ~AllCellsInRange(result.tables[i])) =>
        /\ ppc = "invoke"
        /\ failed_step = "none"
        /\ Len(grids) = Len(result.tables)
        /\ \A i \in 1..Len(result.tables) :
             LET table == result.tables[i]
                 kept  == [table EXCEPT !.cells =
                             SelectSeq(table.cells,
                                       LAMBDA cell : CellInRange(table, cell))]
             IN  grids[i] = ExpectedGrid(kept)

RECURSIVE ExpectedRows(_, _)
(* Rows r.. of the grid as text: each row's strings with " | " between.     *)
ExpectedRows(grid, r) ==
    IF r > Len(grid) THEN ""
    ELSE LET row == grid[r]
             RECURSIVE From(_)
             From(c) == IF c > Len(row) THEN ""
                        ELSE IF c = Len(row) THEN row[c]
                        ELSE row[c] \o " | " \o From(c + 1)
         IN  From(1) \o "\n" \o ExpectedRows(grid, r + 1)

RECURSIVE ExpectedSection(_, _, _)
(* The table section from table i on, given each table's header text.       *)
ExpectedSection(header(_), tbls, i) ==
    IF i > Len(tbls) THEN ""
    ELSE header(i) \o ExpectedRows(ExpectedGrid(tbls[i]), 1)
         \o ExpectedSection(header, tbls, i + 1)

(* C7: when every cell of every table is in range, the table section is     *)
(* assembled without error and each table's grid has row_count lines of     *)
(* column_count strings joined with " | ", rows and columns ascending,      *)
(* position (r, c) showing the cell with those indices and "" where the     *)
(* table has no cell; the 2x2 cells A, B, C, D give "A | B" then "C | D".   *)
C7_GridSerialization ==
    (/\ TablesPrepared
     /\ \A i \in 1..Len(result.tables) : AllCellsInRange(result.tables[i])) =>
        /\ ppc = "invoke"
        /\ failed_step = "none"
        /\ Len(grids) = Len(result.tables)
        /\ \A i \in 1..Len(result.tables) :
             /\ grids[i] = ExpectedGrid(result.tables[i])
             /\ Len(grids[i]) = result.tables[i].row_count
             /\ \A r \in 1..Len(grids[i]) :
                  Len(grids[i][r]) = result.tables[i].column_count
        /\ result.tables # << >> =>
             tables_str = "\n\n## Tables\n"
                \o ExpectedSection(LAMBDA i : TableHeader(i - 1, tables[i]),
                                   result.tables, 1)
        /\ result.tables = << GridExample >> =>
             tables_str =
                "\n\n## Tables\n\n### Table 1\nPages: 1\n\nA | B\nC | D\n"
        /\ result.tables = << MissingCellExample >> =>
             tables_str =
                "\n\n## Tables\n\n### Table 1\nPages: 1\n\nA | B\n | C\n"

(* A table with in-range cells and a position left without a cell, whose    *)
(* grid was built: the cell sits at its position, the gap is "".            *)
C7_Witness ==
    /\ ppc = "invoke"
    /\ Len(result.tables) = 1
    /\ AllCellsInRange(result.tables[1])
    /\ result.tables[1].row_count = 2
    /\ result.tables[1].column_count = 2
    /\ Len(result.tables[1].cells) >= 1
    /\ \E r, c \in 1..2 :
         /\ CellsAt(result.tables[1], r - 1, c - 1) = {}
         /\ grids[1][r][c] = ""
    /\ \E r, c \in 1..2 : grids[1][r][c] # ""

(* The pages of the regions, each once, in order of first appearance.       *)
FirstAppearances(regions) ==
    LET firsts == { i \in 1..Len(regions) :
                      \A j \in 1..(i - 1) :
                          regions[j].page_number # regions[i].page_number }
        RECURSIVE Pick(_)
        Pick(S) == IF S = {} THEN << >>
                   ELSE LET m == CHOOSE x \in S : \A y \in S : x <= y
                        IN  << regions[m].page_number >> \o Pick(S \ {m})
    IN  Pick(firsts)

(* The pages of the regions, each once, in ascending order.                 *)
AscendingPages(regions) ==
    LET RECURSIVE Asc(_)
        Asc(S) == IF S = {} THEN << >>
                  ELSE LET m == CHOOSE x \in S : \A y \in S : x <= y
                       IN  << m >> \o Asc(S \ {m})
    IN  Asc({ regions[i].page_number : i \in 1..Len(regions) })

RECURSIVE CommaJoined(_)
CommaJoined(nums) ==
    IF nums = << >> THEN ""
    ELSE IF Len(nums) = 1 THEN ToString(nums[1])
    ELSE ToString(nums[1]) \o ", " \o CommaJoined(Tail(nums))

(* The header block of the table at 1-based position i listing `pages`.     *)
HeaderBlock(i, pages) ==
    "\n### Table " \o ToString(i) \o "\n" \o "Pages: " \o CommaJoined(pages)
    \o "\n\n"

SectionAssembled ==
    /\ ppc = "invoke"
    /\ result.tables # << >>
    /\ \A i \in 1..Len(result.tables) : AllCellsInRange(result.tables[i])

(* C8 (as claimed): the header block of every table names its 1-based       *)
(* position and lists the pages of its bounding regions comma-joined, each  *)
(* once, in ascending order (regions 3, 1, 3 give "Pages: 1, 3").           *)
C8_HeaderPagesSorted ==
    SectionAssembled =>
        tables_str = "\n\n## Tables\n"
            \o ExpectedSection(
                 LAMBDA i : HeaderBlock(i,
                    AscendingPages(result.tables[i].bounding_regions)),
                 result.tables, 1)

(* C8 (amended): the header block of every table names its 1-based position *)
(* and lists the pages of its bounding regions comma-joined, each once, in  *)
(* the order in which they first appear among the regions (regions 3, 1, 3  *)
(* give "Pages: 3, 1").                                                     *)
C8_HeaderPagesInFirstAppearanceOrder ==
    SectionAssembled =>
        /\ \A i \in 1..Len(result.tables) :
             tables[i].page_numbers =
                FirstAppearances(result.tables[i].bounding_regions)
        /\ tables_str = "\n\n## Tables\n"
            \o ExpectedSection(
                 LAMBDA i : HeaderBlock(i,
                    FirstAppearances(result.tables[i].bounding_regions)),
                 result.tables, 1)

(* Two tables, the second with regions on pages 3, 1, 3, both serialized.   *)
C8_Witness ==
    /\ SectionAssembled
    /\ Len(result.tables) = 2
    /\ result.tables[2].bounding_regions
         = << Region(3), Region(1), Region(3) >>
    /\ tables[2].page_numbers = << 3, 1 >>

-----------------------------------------------------------------------------
(* The external services as seen by one process_pdf call.                   *)

CredentialError == "Azure Document Intelligence credentials not found"

AnalysisErrors == { "analysis service unavailable" }

ConnectorErrors == { "connector configuration missing" }

LlmErrors == { "LLM request failed" }

Responses == { "### Invoice Details", "" }

Raised(msg) == [raised |-> TRUE, msg |-> msg]

EmptyResult == AnalysisResult(<< >>, << >>, << >>)

(* Tables with one cell outside the grid: row too large, column too large,  *)
(* and a negative row that Python counts from the end.                      *)
RowTooLargeExample ==
    Table(1, 2, << Region(1) >>, << Cell(1, 0, 0), Cell(2, 1, 0) >>)

ColumnTooLargeExample ==
    Table(1, 2, << Region(1) >>, << Cell(1, 0, 0), Cell(2, 0, 2) >>)

NegativeRowExample ==
    Table(2, 1, << Region(1) >>, << Cell(1, 1, 0), Cell(2, -1, 0) >>)

SampleTables ==
    { << >>, << GridExample >>, << MissingCellExample >>,
      << GridExample, RowTooLargeExample >>, << ColumnTooLargeExample >>,
      << NegativeRowExample >>,
      << GridExample,
         RegionTable(<< Region(3), Region(1), Region(3) >>) >> }

SampleTexts ==
    { EmptyResult, OffsetsExample, TwoPageExample,
      AnalysisResult(<< >>, << Page(2, 1), Page(1, 0) >>, << >>) }

(* What poller.result() can hand to one process_pdf call.                   *)
PdfResults ==
    { AnalysisResult(t.paragraphs, t.pages, tbls) :
        t \in SampleTexts, tbls \in SampleTables }

(* The analysis service either raises or returns a result (lines 41-54).    *)
AnalysisOutcomes ==
    { [raised |-> TRUE, msg |-> m, result |-> EmptyResult] :
        m \in AnalysisErrors }
    \cup { [raised |-> FALSE, msg |-> "", result |-> r] : r \in PdfResults }

ConnectorOutcomes == { NoError } \cup { Raised(m) : m \in ConnectorErrors }

LlmOutcomes ==
    { [raised |-> TRUE, msg |-> m, content |-> ""] : m \in LlmErrors }
    \cup { [raised |-> FALSE, msg |-> "", content |-> c] : c \in Responses }

-----------------------------------------------------------------------------
(* extract_content_from_pdf (lines 21-70).                                  *)

ExtractSwallowingErrors(credentials, service) ==
    IF ~credentials \/ service.raised
    THEN [raised |-> FALSE, msg |-> "", text |-> EmptyDict, tables |-> << >>]
    ELSE [raised |-> FALSE, msg |-> "",
          text   |-> extract_text(service.result),
          tables |-> extract_tables(service.result)]

(* The credentials check raises ValueError; every exception is logged and   *)
(* re-raised (lines 68-70); otherwise both extractors run on the result.    *)
extract_content_from_pdf(credentials, service) ==
    IF ~credentials
    THEN [raised |-> TRUE, msg |-> CredentialError,
          text |-> EmptyDict, tables |-> << >>]
    ELSE IF service.raised
    THEN [raised |-> TRUE, msg |-> service.msg,
          text |-> EmptyDict, tables |-> << >>]
    ELSE [raised |-> FALSE, msg |-> "",
          text   |-> extract_text(service.result),
          tables |-> extract_tables(service.result)]

-----------------------------------------------------------------------------
(* process_pdf (lines 173-277), one action per step inside its try block.   *)

(* The ascending sequence of the numbers in S: sorted(text_content.keys()). *)
RECURSIVE SortedKeys(_)
SortedKeys(S) ==
    IF S = {} THEN << >>
    ELSE LET m == CHOOSE x \in S : \A y \in S : x <= y
         IN  << m >> \o SortedKeys(S \ {m})

RECURSIVE ItemLines(_)
(* Lines 203-204.                                                           *)
ItemLines(items) ==
    IF items = << >> THEN ""
    ELSE Head(items).content \o "\n" \o ItemLines(Tail(items))

RECURSIVE PageSections(_, _)
(* Lines 201-204.                                                           *)
PageSections(tc, keys) ==
    IF keys = << >> THEN ""
    ELSE "\n\n### Page " \o ToString(Head(keys)) \o "\n"
         \o ItemLines(tc[Head(keys)]) \o PageSections(tc, Tail(keys))

(* Line 191: the call of extract_content_from_pdf.                          *)
P_Extract ==
    /\ ppc = "extract"
    /\ \E service \in AnalysisOutcomes :
         LET out == extract_content_from_pdf(creds, service)
         IN  /\ events' = IF creds
                          THEN Append(events,
                                 IF service.raised THEN "analysis_raised"
                                 ELSE "analysis_returned")
                          ELSE events
             /\ IF out.raised
                THEN /\ ppc' = HandleException(out.msg).pc
                     /\ ret' = HandleException(out.msg).value
                     /\ failed_step' = "extract"
                     /\ UNCHANGED << result, text_content, tables >>
                ELSE /\ ppc' = "connect"
                     /\ result' = service.result
                     /\ text_content' = out.text
                     /\ tables' = out.tables
                     /\ UNCHANGED << ret, failed_step >>
    /\ UNCHANGED << mainVars, text_content_str, grids, tables_str >>

(* Lines 195-196: AzureOpenAIConnector() and connect_azure_open_ai.         *)
P_Connect ==
    /\ ppc = "connect"
    /\ \E out \in ConnectorOutcomes :
         /\ events' = Append(events, "llm_init")
         /\ IF out.raised
            THEN /\ ppc' = HandleException(out.msg).pc
                 /\ ret' = HandleException(out.msg).value
                 /\ failed_step' = "connect"
            ELSE /\ ppc' = "prepare_text"
                 /\ UNCHANGED << ret, failed_step >>
    /\ UNCHANGED << mainVars, result, text_content, tables, text_content_str,
                    grids, tables_str >>

(* Lines 200-204.                                                           *)
P_PrepareText ==
    /\ ppc = "prepare_text"
    /\ text_content_str' =
         PageSections(text_content, SortedKeys(DOMAIN text_content))
    /\ ppc' = "prepare_tables"
    /\ UNCHANGED << mainVars, result, text_content, tables, grids, tables_str,
                    ret, failed_step, events >>

(* Lines 230-273: the prompt is sent and response.content is returned.      *)
P_Invoke ==
    /\ ppc = "invoke"
    /\ \E out \in LlmOutcomes :
         /\ events' = Append(events, "llm_invoke")
         /\ IF out.raised
            THEN /\ ppc' = HandleException(out.msg).pc
                 /\ ret' = HandleException(out.msg).value
                 /\ failed_step' = "invoke"
            ELSE /\ ppc' = "returned"
                 /\ ret' = out.content
                 /\ UNCHANGED failed_step
    /\ UNCHANGED << mainVars, result, text_content, tables, text_content_str,
                    grids, tables_str >>

ProcessPdf ==
    \/ P_Extract
    \/ P_Connect
    \/ P_PrepareText
    \/ P_PrepareTables
    \/ P_Invoke

(* process_pdf called on its own, with or without credentials.              *)
InitPdf ==
    /\ IdleMain
    /\ IdleCall
    /\ creds \in BOOLEAN
    /\ ppc = "extract"
    /\ result = EmptyResult

SpecPdf == InitPdf /\ [][ProcessPdf]_vars

-----------------------------------------------------------------------------
(* Properties of process_pdf, checked under SpecPdf.                        *)

(* Every str(e) an exception inside process_pdf can carry.                  *)
ErrorMessages ==
    {CredentialError} \cup AnalysisErrors \cup ConnectorErrors \cup LlmErrors
    \cup { "list index out of range", "list assignment index out of range" }

StartsWithErrorPrefix(str) ==
    \E m \in ErrorMessages : str = "Error processing PDF: " \o m

(* C1: process_pdf never raises to its caller; it returns a string, and     *)
(* when a step inside it failed (extraction, connector initialisation,      *)
(* prompt assembly, LLM invocation) that string begins with                 *)
(* "Error processing PDF: ".                                                *)
C1_NeverRaises ==
    /\ ppc # "raised"
    /\ ppc = "returned" =>
         /\ ret \in STRING
         /\ failed_step # "none" => StartsWithErrorPrefix(ret)
    /\ failed_step # "none" => ppc = "returned"

(* The LLM invocation itself failed and the error string was returned.      *)
C1_Witness ==
    /\ ppc = "returned"
    /\ failed_step = "invoke"
    /\ ret = "Error processing PDF: LLM request failed"

Occurs(e) == \E i \in 1..Len(events) : events[i] = e

(* C2: when extract_content_from_pdf raises (the analysis service raises,   *)
(* or the credentials are missing), the LLM connector is never initialised  *)
(* and never invoked for that file, no text or tables are used, and         *)
(* process_pdf returns a string beginning with "Error processing PDF: ";    *)
(* every LLM event of a call comes after the analysis returned.             *)
C2_NoLlmAfterFailedExtraction ==
    /\ (ppc # "extract" /\ (~creds \/ Occurs("analysis_raised"))) =>
         /\ ~Occurs("llm_init")
         /\ ~Occurs("llm_invoke")
         /\ text_content = EmptyDict /\ tables = << >>
         /\ text_content_str = "" /\ tables_str = ""
         /\ ppc = "returned"
         /\ StartsWithErrorPrefix(ret)
    /\ \A i \in 1..Len(events) :
         events[i] \in {"llm_init", "llm_invoke"} =>
            \E j \in 1..(i - 1) : events[j] = "analysis_returned"

(* The analysis service raised mid-call and the error string came back.     *)
C2_Witness ==
    /\ creds
    /\ events = << "analysis_raised" >>
    /\ ppc = "returned"
    /\ ret = "Error processing PDF: analysis service unavailable"

-----------------------------------------------------------------------------
(* main (lines 279-349): the batch loop over the uploaded files.            *)

MaxFiles == 2

Init ==
    /\ mainpc = "start"
    /\ creds \in BOOLEAN
    /\ uploaded_files \in 0..MaxFiles
    /\ idx = 0
    /\ temp_files = {}
    /\ attempted = << >>
    /\ outcomes = << >>
    /\ notice = FALSE
    /\ IdleCall
    /\ ppc = "idle"
    /\ result = EmptyResult

callVars == << ppc, result, text_content, tables, text_content_str, grids,
               tables_str, ret, failed_step, events >>

(* Lines 287-302: the credentials check, the uploader and the button.       *)
M_Start ==
    /\ mainpc = "start"
    /\ IF ~creds \/ uploaded_files = 0
       THEN mainpc' = "stopped" /\ UNCHANGED idx
       ELSE mainpc' = "loop" /\ idx' = 1
    /\ UNCHANGED << creds, uploaded_files, temp_files, attempted, outcomes,
                    notice, callVars >>

(* Lines 303-313: the iteration starts; NamedTemporaryFile(delete=False)    *)
(* creates the file, then the upload is written to it.  A failing write     *)
(* leaves the with block, and main, before the try at line 315 is entered.  *)
M_BeginFile ==
    /\ mainpc = "loop"
    /\ idx <= uploaded_files
    /\ attempted' = Append(attempted, idx)
    /\ temp_files' = temp_files \cup {idx}
    /\ \E written \in BOOLEAN :
         mainpc' = IF written THEN "try" ELSE "crashed"
    /\ UNCHANGED << creds, uploaded_files, idx, outcomes, notice, callVars >>

(* Lines 316-320: process_pdf is called on the temporary file.              *)
M_CallProcess ==
    /\ mainpc = "try"
    /\ mainpc' = "process_pdf"
    /\ ppc' = "extract"
    /\ result' = EmptyResult
    /\ text_content' = EmptyDict
    /\ tables' = << >>
    /\ text_content_str' = ""
    /\ grids' = << >>
    /\ tables_str' = ""
    /\ ret' = ""
    /\ failed_step' = "none"
    /\ events' = << >>
    /\ UNCHANGED << creds, uploaded_files, idx, temp_files, attempted,
                    outcomes, notice >>

(* Lines 322-335: the result is displayed; an exception here, or one        *)
(* leaving process_pdf, is taken by the except clause at line 337.          *)
M_AfterProcess ==
    /\ mainpc = "process_pdf"
    /\ ppc \in {"returned", "raised"}
    /\ \E displayed \in BOOLEAN :
         IF ppc = "returned" /\ displayed
         THEN /\ mainpc' = "finally"
              /\ outcomes' = Append(outcomes, "results")
         ELSE /\ mainpc' = "except"
              /\ UNCHANGED outcomes
    /\ UNCHANGED << creds, uploaded_files, idx, temp_files, attempted, notice,
                    callVars >>

(* Lines 337-340.                                                           *)
M_Except ==
    /\ mainpc = "except"
    /\ outcomes' = Append(outcomes, "error")
    /\ mainpc' = "finally"
    /\ UNCHANGED << creds, uploaded_files, idx, temp_files, attempted, notice,
                    callVars >>

(* Lines 342-345: the temporary file is unlinked; the loop moves on.        *)
M_Finally ==
    /\ mainpc = "finally"
    /\ temp_files' = temp_files \ {idx}
    /\ idx' = idx + 1
    /\ mainpc' = "loop"
    /\ UNCHANGED << creds, uploaded_files, attempted, outcomes, notice,
                    callVars >>

(* Line 347.                                                                *)
M_AllDone ==
    /\ mainpc = "loop"
    /\ idx > uploaded_files
    /\ notice' = TRUE
    /\ mainpc' = "done"
    /\ UNCHANGED << creds, uploaded_files, idx, temp_files, attempted,
                    outcomes, callVars >>

Next ==
    \/ M_Start
    \/ M_BeginFile
    \/ M_CallProcess
    \/ mainpc = "process_pdf" /\ ProcessPdf
    \/ M_AfterProcess
    \/ M_Except
    \/ M_Finally
    \/ M_AllDone

Spec == Init /\ [][Next]_vars

-----------------------------------------------------------------------------
(* Properties of the batch loop, checked under Spec.                        *)

(* main has ended: the loop ran out, or an exception left main.             *)
MainEnded == mainpc \in {"done", "crashed"}

(* C4 (as claimed): whatever fails per file, including the write of the     *)
(* upload to its temporary file and the display of the result, every        *)
(* uploaded file is attempted exactly once in upload order and the          *)
(* "All files processed!" notice is shown.                                  *)
C4_BatchAlwaysCompletes ==
    /\ \A i \in 1..Len(attempted) : attempted[i] = i
    /\ MainEnded =>
         /\ attempted = [i \in 1..uploaded_files |-> i]
         /\ notice

(* C5 (as claimed): a temporary file exists only while the iteration of its *)
(* own upload is under way; once that iteration has ended, by any exit      *)
(* path, the file is gone.                                                  *)
C5_TempFileReleased ==
    \A f \in temp_files :
        /\ f = idx
        /\ mainpc \in {"try", "process_pdf", "except", "finally"}

====
